---- MODULE Spec2Model ----
(***************************************************************************)
(* Model of the two library functions of the repository:                   *)
(*   parts()    (parts/parts.py)       a generator splitting an iterable    *)
(*   products() (products/products.py) disjoint subsets of a product        *)
(* and of the cart views of the shop (minishop/cart/views.py), each request *)
(* handled being one action on the rows of the database.                    *)
(* A sized input (list, tuple, str, range ...) is a sequence; a pull-only   *)
(* input (iterator, generator) is a source read through one shared cursor.  *)
(* Every call of next() on a generator or iterator is one action.           *)
(***************************************************************************)
EXTENDS Integers, Sequences, FiniteSets, TLC

\* ------------------------------------------------------------------------
\* Bounds of the model
\* ------------------------------------------------------------------------
\* longest sized input
MaxLen == 5
\* longest list of part lengths
MaxList == 3
\* largest entry of a list of part lengths
MaxEntry == 3
\* longest finite pull-only source
MaxSrc == 3
\* elements a consumer may take from a non-terminating source
MaxPull == 6

\* ------------------------------------------------------------------------
\* Python helpers
\* ------------------------------------------------------------------------
Min(a, b) == IF a <= b THEN a ELSE b

Max(a, b) == IF a >= b THEN a ELSE b

RECURSIVE Sum(_)
\* sum(list)
Sum(s) == IF s = <<>> THEN 0 ELSE s[1] + Sum(Tail(s))

\* list[:-1]
AllButLast(s) == IF s = <<>> THEN <<>> ELSE SubSeq(s, 1, Len(s) - 1)

RECURSIVE Concat(_)
\* the concatenation of a sequence of sequences
Concat(ss) == IF ss = <<>> THEN <<>> ELSE ss[1] \o Concat(Tail(ss))

\* a slice bound as Python normalises it: a negative bound counts from the end
Clip(b, n) == IF b < 0 THEN Max(0, b + n) ELSE Min(b, n)

\* seq[lower:upper] of a Python sequence
PySlice(s, lower, upper) ==
    LET lo == Clip(lower, Len(s))
        hi == Clip(upper, Len(s))
    IN  IF lo >= hi THEN <<>> ELSE SubSeq(s, lo + 1, hi)

\* ------------------------------------------------------------------------
\* State
\* ------------------------------------------------------------------------
VARIABLES
    xs,       \* the input: [kind, items, ending]
    number,   \* the number argument: <<>> is None, <<k>> is the integer k
    length,   \* the length argument: [tag, n, l, bad], tag "none" | "int" |
              \* "list" | "tuple" (iterable, no list) | "other" (neither)
    g,        \* the frame of the parts() generator (its locals and position)
    cursor,   \* how many elements have been pulled from a pull-only input
    out,      \* the parts yielded so far, in order
    taken,    \* pull-only: what the consumer has pulled from each part
    err       \* the exception that ended the generator, "none" if none

partsVars == <<xs, number, length, g, cursor, out, taken, err>>

VARIABLES
    factors,  \* the collections given to products(), each a sequence
    pnumber,  \* its number argument: <<>> is None, <<k>> is the integer k
    called,   \* "no" before the call, then "returned" or "raised"
    subsets,  \* the list of iterators it returned
    listed    \* what list(s) gave for the iterators consumed so far, in order

prodVars == <<factors, pnumber, called, subsets, listed>>

VARIABLES
    stock,    \* product.stock of every product row, by product id
    cartlist, \* the users that have a cartlist row
    items,    \* the items rows: quan by <<user of the cart, product id>>
    payment,  \* the number of payment rows of every user
    request,  \* the request handled last: [view, user, product_id, method]
    handled   \* the number of requests handled so far

cartVars == <<stock, cartlist, items, payment, request, handled>>

\* the exceptions of parts(), by message
ErrLenNumber == "TypeError: object must have length to determine part lengths from number parameter"

ErrLenParts == "TypeError: object must have length to determine if number of parts having specified length(s) can be retrieved"

ErrNoSlices == "TypeError: object does not support retrieval of slices"

ErrUnsat == "ValueError: cannot retrieve number parts from object given part length parameter"

ErrMismatch == "ValueError: number parameter does not match number of specified part lengths"

ErrTooFew == "ValueError: object has too few items to retrieve parts having specified part lengths"

ErrTooMany == "ValueError: object has too many items to retrieve parts having specified part lengths"

ErrMissing == "ValueError: missing number of parts parameter and part length(s) parameter"

ErrNumberType == "TypeError: number parameter must be an integer"

ErrLenType == "TypeError: length parameter must be an integer or iterable of integers"

ErrLenList == "TypeError: length parameter must be an integer or list of integers"

\* what the generator error() of the doctest of _empty raises from within
ErrSource == "RuntimeError: error in generator"

\* the generator's frame before its first next()
Frame0 ==
    [pc |-> "start", number |-> 0, length |-> 0, i |-> 0, index |-> 0,
     len_ |-> 0, pos |-> 0]

\* a sized input has __len__ and slicing; a pull-only one has only next()
Sized(x) == x.kind = "sized"

\* whether next() on the pull-only source would give an element at cursor c
SrcHas(x, c) == c < Len(x.items) \/ x.ending = "forever"

\* whether next() on the pull-only source at cursor c raises from within:
\* a source ending in "raise" gives its items and then raises instead of
\* stopping; once it has raised it is finished, so the raise counts as one
\* more position of the cursor, past which next() is StopIteration
SrcRaises(x, c) == x.ending = "raise" /\ c = Len(x.items)

\* the element the source gives at position p (a non-terminating source
\* goes on with p itself after its listed items)
SrcItem(x, p) == IF p <= Len(x.items) THEN x.items[p] ELSE p

\* ------------------------------------------------------------------------
\* _slice and _empty
\* ------------------------------------------------------------------------
\* mutant: islice(xs, 0, upper), the lower bound is not taken off
_slice_upper(x, lower, upper) ==
    IF Sized(x)
    THEN [ok |-> TRUE, part |-> PySlice(x.items, lower, Min(Len(x.items), upper))]
    ELSE IF upper - lower < 0
         THEN [ok |-> FALSE, part |-> <<>>]
         ELSE [ok |-> TRUE, part |-> [head |-> <<>>, rem |-> upper]]

\* xs[lower: min(len(xs), upper)], or islice(xs, 0, upper - lower) when xs
\* has no len(); islice refuses a negative stop, which _slice reports as
\* "does not support retrieval of slices".  A lazy view is [head, rem]: the
\* element chained in front, and how many more islice may still pull.
_slice(x, lower, upper) ==
    IF Sized(x)
    THEN [ok |-> TRUE, part |-> PySlice(x.items, lower, Min(Len(x.items), upper))]
    ELSE IF upper - lower < 0
         THEN [ok |-> FALSE, part |-> <<>>]
         ELSE [ok |-> TRUE, part |-> [head |-> <<>>, rem |-> upper - lower]]

\* mutant: the element pulled by the probe is not chained back
_empty_drop(x, c, part) ==
    IF Sized(x)
    THEN [part |-> part, empty |-> (Len(part) = 0), cursor |-> c, err |-> "none"]
    ELSE IF part.rem > 0 /\ SrcHas(x, c)
         THEN [part |-> [head |-> <<>>, rem |-> part.rem - 1],
               empty |-> FALSE, cursor |-> c + 1, err |-> "none"]
         ELSE IF part.rem > 0 /\ SrcRaises(x, c)
         THEN [part |-> part, empty |-> FALSE, cursor |-> c + 1, err |-> ErrSource]
         ELSE [part |-> part, empty |-> TRUE, cursor |-> c, err |-> "none"]

\* mutant: an exception of the source is taken for its exhaustion
\* (except Exception: return (xs, True))
_empty_swallow(x, c, part) ==
    IF Sized(x)
    THEN [part |-> part, empty |-> (Len(part) = 0), cursor |-> c, err |-> "none"]
    ELSE IF part.rem > 0 /\ SrcHas(x, c)
         THEN [part |-> [head |-> <<SrcItem(x, c + 1)>>, rem |-> part.rem - 1],
               empty |-> FALSE, cursor |-> c + 1, err |-> "none"]
         ELSE IF part.rem > 0 /\ SrcRaises(x, c)
         THEN [part |-> part, empty |-> TRUE, cursor |-> c + 1, err |-> "none"]
         ELSE [part |-> part, empty |-> TRUE, cursor |-> c, err |-> "none"]

\* (part, len(part) == 0), or for a view: next(part) pulls one element off
\* the shared cursor and chains it back in front; StopIteration is "empty";
\* any other exception of the source is raised again (err).
_empty(x, c, part) ==
    IF Sized(x)
    THEN [part |-> part, empty |-> (Len(part) = 0), cursor |-> c, err |-> "none"]
    ELSE IF part.rem > 0 /\ SrcHas(x, c)
         THEN [part |-> [head |-> <<SrcItem(x, c + 1)>>, rem |-> part.rem - 1],
               empty |-> FALSE, cursor |-> c + 1, err |-> "none"]
         ELSE IF part.rem > 0 /\ SrcRaises(x, c)
         THEN [part |-> part, empty |-> FALSE, cursor |-> c + 1, err |-> ErrSource]
         ELSE [part |-> part, empty |-> TRUE, cursor |-> c, err |-> "none"]

\* ------------------------------------------------------------------------
\* The parts() generator: what one next() does
\* ------------------------------------------------------------------------
Yield(f, c, p) ==
    [g |-> f, cursor |-> c, result |-> "yield", part |-> p, err |-> "none"]

Return(f, c) ==
    [g |-> [f EXCEPT !.pc = "done"], cursor |-> c, result |-> "return",
     part |-> <<>>, err |-> "none"]

Raise(f, c, e) ==
    [g |-> [f EXCEPT !.pc = "raised"], cursor |-> c, result |-> "raise",
     part |-> <<>>, err |-> e]

\* isinstance(a, int) for a number argument that is not None: <<k>> is
\* the integer k, anything longer a value of another type
IsInt(a) == Len(a) = 1

\* the checks made on entry, in the order made: the exception raised,
\* "none" if the arguments pass.  A length of tag "other" is neither an
\* integer nor iterable, one of tag "tuple" is iterable but no list.
ArgCheck(num, len) ==
    IF num # <<>> /\ ~IsInt(num) THEN ErrNumberType
    ELSE IF len.tag = "other" THEN ErrLenType
    ELSE "none"

\* which branch of parts() the arguments select
Branch(num, len) ==
    IF ArgCheck(num, len) # "none" THEN "invalid"
    ELSE IF num # <<>> /\ len.tag = "none" THEN "A"
    ELSE IF num = <<>> /\ len.tag = "int" THEN "B"
    ELSE IF num = <<>> /\ len.tag \in {"list", "tuple"} THEN "C"
    ELSE IF num # <<>> /\ len.tag # "none" THEN "D"
    ELSE "none"

\* number only: the loop from its head to the next yield
LoopA(x, f, c) ==
    IF f.number > 0 /\ f.i < f.len_
    THEN IF f.number - 1 = 0
         THEN Yield([f EXCEPT !.number = 0, !.pc = "A_last"], c,
                    PySlice(x.items, f.i, Len(x.items)))
         ELSE Yield([f EXCEPT !.number = f.number - 1, !.pc = "A_yield"], c,
                    PySlice(x.items, f.i, f.i + f.length))
    ELSE Return(f, c)

\* mutant: the number is not clamped to the length of the input
ClampNumber_nomin(len_, k) == Max(1, k)

\* number = max(1, min(len_, number))
ClampNumber(len_, k) == Max(1, Min(len_, k))

\* mutant: the length of a pull-only input is sought by exhausting it
NextOfA_exhaust(x, num, f, c) ==
    IF f.pc = "start"
    THEN IF ~Sized(x)
         THEN Raise(f, Len(x.items), ErrLenNumber)
         ELSE LET len_ == Len(x.items)
                  n    == Max(1, Min(len_, num[1]))
              IN  LoopA(x, [f EXCEPT !.len_ = len_, !.number = n,
                                     !.length = len_ \div n, !.i = 0], c)
    ELSE IF f.pc = "A_last"
    THEN Return(f, c)
    ELSE LoopA(x, [f EXCEPT !.i = f.i + f.length,
                            !.length = (f.len_ - (f.i + f.length)) \div f.number], c)

\* mutant: the part length is not recomputed after each part
NextOfA_static(x, num, f, c) ==
    IF f.pc = "start"
    THEN IF ~Sized(x)
         THEN Raise(f, c, ErrLenNumber)
         ELSE LET len_ == Len(x.items)
                  n    == ClampNumber(len_, num[1])
              IN  LoopA(x, [f EXCEPT !.len_ = len_, !.number = n,
                                     !.length = len_ \div n, !.i = 0], c)
    ELSE IF f.pc = "A_last"
    THEN Return(f, c)
    ELSE LoopA(x, [f EXCEPT !.i = f.i + f.length], c)

\* mutant: the part length is rounded up instead of down
NextOfA_ceil(x, num, f, c) ==
    IF f.pc = "start"
    THEN IF ~Sized(x)
         THEN Raise(f, c, ErrLenNumber)
         ELSE LET len_ == Len(x.items)
                  n    == ClampNumber(len_, num[1])
              IN  LoopA(x, [f EXCEPT !.len_ = len_, !.number = n,
                                     !.length = (len_ + n - 1) \div n, !.i = 0], c)
    ELSE IF f.pc = "A_last"
    THEN Return(f, c)
    ELSE LoopA(x, [f EXCEPT !.i = f.i + f.length,
                            !.length = (f.len_ - (f.i + f.length) + f.number - 1)
                                           \div f.number], c)

\* number only: a next() from the start, or resuming after a yield
NextOfA(x, num, f, c) ==
    IF f.pc = "start"
    THEN IF ~Sized(x)
         THEN Raise(f, c, ErrLenNumber)
         ELSE LET len_ == Len(x.items)
                  n    == ClampNumber(len_, num[1])
              IN  LoopA(x, [f EXCEPT !.len_ = len_, !.number = n,
                                     !.length = len_ \div n, !.i = 0], c)
    ELSE IF f.pc = "A_last"
    THEN Return(f, c)
    ELSE LoopA(x, [f EXCEPT !.i = f.i + f.length,
                            !.length = (f.len_ - (f.i + f.length)) \div f.number], c)

\* length only, an integer: the loop body
LoopB(x, f, c) ==
    LET sl == _slice(x, f.index, f.index + f.length)
        f1 == [f EXCEPT !.index = f.index + f.length]
    IN  IF ~sl.ok
        THEN Raise(f, c, ErrNoSlices)
        ELSE LET e == _empty(x, c, sl.part)
             IN  IF e.err # "none"
                 THEN Raise(f1, e.cursor, e.err)
                 ELSE IF e.empty
                 THEN Return(f1, e.cursor)
                 ELSE Yield([f1 EXCEPT !.pc = "B_yield"], e.cursor, e.part)

\* mutant: the length is not clamped to at least 1
ClampLength_none(L) == L

\* length = max(1, length)
ClampLength(L) == Max(1, L)

NextOfB(x, len, f, c) ==
    IF f.pc = "start"
    THEN LoopB(x, [f EXCEPT !.length = ClampLength(len.n), !.index = 0], c)
    ELSE LoopB(x, f, c)

\* mutant: an empty part ends the production instead of raising
LoopC_break(x, len, f, c) ==
    IF f.pos >= Len(len.l)
    THEN Return(f, c)
    ELSE LET L  == len.l[f.pos + 1]
             f0 == [f EXCEPT !.pos = f.pos + 1, !.length = L]
             sl == _slice(x, f.index, f.index + L)
             f1 == [f0 EXCEPT !.index = f.index + L]
         IN  IF (f.pos + 1) \in len.bad
             THEN Raise(f0, c, ErrLenType)
             ELSE IF ~sl.ok
             THEN Raise(f0, c, ErrNoSlices)
             ELSE LET e == _empty(x, c, sl.part)
                  IN  IF e.err # "none"
                      THEN Raise(f1, e.cursor, e.err)
                      ELSE IF e.empty
                      THEN Return(f1, e.cursor)
                      ELSE Yield([f1 EXCEPT !.pc = "C_yield"], e.cursor, e.part)

\* length only, an iterable of integers: the loop body.  The entry taken
\* off the iterable is checked to be an integer before it is used.
LoopC(x, len, f, c) ==
    IF f.pos >= Len(len.l)
    THEN Return(f, c)
    ELSE LET L  == len.l[f.pos + 1]
             f0 == [f EXCEPT !.pos = f.pos + 1, !.length = L]
             sl == _slice(x, f.index, f.index + L)
             f1 == [f0 EXCEPT !.index = f.index + L]
         IN  IF (f.pos + 1) \in len.bad
             THEN Raise(f0, c, ErrLenType)
             ELSE IF ~sl.ok
             THEN Raise(f0, c, ErrNoSlices)
             ELSE LET e == _empty(x, c, sl.part)
                  IN  IF e.err # "none"
                      THEN Raise(f1, e.cursor, e.err)
                      ELSE IF e.empty
                      THEN Raise(f1, e.cursor, ErrTooFew)
                      ELSE Yield([f1 EXCEPT !.pc = "C_yield"], e.cursor, e.part)

\* mutant: the entries are all checked before the first part
NextOfC_batch(x, len, f, c) ==
    IF f.pc = "start"
    THEN IF len.bad # {}
         THEN Raise(f, c, ErrLenType)
         ELSE LoopC(x, len, [f EXCEPT !.pos = 0, !.index = 0], c)
    ELSE LoopC(x, len, f, c)

NextOfC(x, len, f, c) ==
    IF f.pc = "start"
    THEN LoopC(x, len, [f EXCEPT !.pos = 0, !.index = 0], c)
    ELSE LoopC(x, len, f, c)

\* mutant: each part is one element short (xs[i:i + length - 1])
LoopDInt_short(x, f, c) ==
    IF f.i < f.len_
    THEN Yield([f EXCEPT !.pc = "D_int_yield"], c,
               PySlice(x.items, f.i, f.i + f.length - 1))
    ELSE Return(f, c)

\* number and integer length: for i in range(0, len_, length)
LoopDInt(x, f, c) ==
    IF f.i < f.len_
    THEN Yield([f EXCEPT !.pc = "D_int_yield"], c,
               PySlice(x.items, f.i, f.i + f.length))
    ELSE Return(f, c)

\* number and list of lengths: the loop body (no emptiness probe here)
LoopDList(x, len, f, c) ==
    IF f.pos >= Len(len.l)
    THEN Return(f, c)
    ELSE LET L  == len.l[f.pos + 1]
             sl == _slice(x, f.index, f.index + L)
             f1 == [f EXCEPT !.pos = f.pos + 1, !.length = L,
                             !.index = f.index + L, !.pc = "D_list_yield"]
         IN  Yield(f1, c, sl.part)

\* mutant: the lower bound of the feasibility test is forgotten
Unsatisfiable_upper(len_, L, n) == len_ > L * n

\* the feasibility test of number with an integer length
Unsatisfiable(len_, L, n) == len_ > L * n \/ len_ <= L * (n - 1)

\* mutant: the too-few test is strict (len_ < sum(length[:-1]))
ListCheck_strict(len_, l, n) ==
    IF Len(l) # n THEN ErrMismatch
    ELSE IF len_ < Sum(AllButLast(l)) THEN ErrTooFew
    ELSE IF len_ > Sum(l) THEN ErrTooMany
    ELSE "none"

\* mutant: the length is not checked to be a list of integers
ListTypeOk_any(len) == TRUE

\* isinstance(length, list) and all(isinstance(l, int) for l in length)
ListTypeOk(len) == len.tag = "list" /\ len.bad = {}

\* the checks of number with a list of lengths, in the order made:
\* the exception raised, "none" if the list passes
ListCheck(len_, l, n) ==
    IF Len(l) # n THEN ErrMismatch
    ELSE IF len_ <= Sum(AllButLast(l)) THEN ErrTooFew
    ELSE IF len_ > Sum(l) THEN ErrTooMany
    ELSE "none"

NextOfD(x, num, len, f, c) ==
    IF f.pc = "start"
    THEN IF ~Sized(x)
         THEN Raise(f, c, ErrLenParts)
         ELSE LET len_ == Len(x.items)
                  n    == num[1]
              IN  IF len.tag = "int"
                  THEN LET L == ClampLength(len.n)
                       IN  IF Unsatisfiable(len_, L, n)
                           THEN Raise(f, c, ErrUnsat)
                           ELSE LoopDInt(x, [f EXCEPT !.len_ = len_, !.length = L,
                                                      !.i = 0], c)
                  ELSE IF ~ListTypeOk(len)
                       THEN Raise(f, c, ErrLenList)
                       ELSE IF ListCheck(len_, len.l, n) # "none"
                       THEN Raise(f, c, ListCheck(len_, len.l, n))
                       ELSE LoopDList(x, len, [f EXCEPT !.len_ = len_, !.pos = 0,
                                                        !.index = 0], c)
    ELSE IF f.pc = "D_int_yield"
    THEN LoopDInt(x, [f EXCEPT !.i = f.i + f.length], c)
    ELSE LoopDList(x, len, f, c)

\* one next() on the generator parts(x, num, len) in frame f, cursor at c
GenNext(x, num, len, f, c) ==
    CASE Branch(num, len) = "A" -> NextOfA(x, num, f, c)
      [] Branch(num, len) = "B" -> NextOfB(x, len, f, c)
      [] Branch(num, len) = "C" -> NextOfC(x, len, f, c)
      [] Branch(num, len) = "D" -> NextOfD(x, num, len, f, c)
      [] Branch(num, len) = "invalid" -> Raise(f, c, ArgCheck(num, len))
      [] OTHER -> Raise(f, c, ErrMissing)

\* ------------------------------------------------------------------------
\* Inputs
\* ------------------------------------------------------------------------
\* the sequence 1, 2, ..., n: distinct elements, so that an omission, a
\* duplication or a reordering of elements shows
Iota(n) == [i \in 1..n |-> i]

\* integers given as number or length: negative, zero, up to past the input
Ints == -1 .. MaxLen + 1

\* lists of part lengths
LengthLists == UNION {[1..k -> -1 .. MaxEntry] : k \in 0..MaxList}

\* a length argument [tag, n, l, bad]: the integer n, or the entries l of
\* a list, bad the positions of the entries that are not integers
NoLength == [tag |-> "none", n |-> 0, l |-> <<>>, bad |-> {}]

Lengths ==
    {NoLength} \cup {[tag |-> "int", n |-> n, l |-> <<>>, bad |-> {}] : n \in Ints}
               \cup {[tag |-> "list", n |-> 0, l |-> l, bad |-> {}] : l \in LengthLists}

Numbers == {<<>>} \cup {<<k>> : k \in Ints}

SizedInputs == {[kind |-> "sized", items |-> Iota(n), ending |-> "stop"] : n \in 0..MaxLen}

PullInputs ==
    {[kind |-> "pull", items |-> Iota(n), ending |-> e] :
        n \in 0..MaxSrc, e \in {"stop", "forever"}}

\* ------------------------------------------------------------------------
\* Actions: one next() on the generator, by the branch of parts() it runs
\* ------------------------------------------------------------------------
Live == g.pc \notin {"done", "raised"}

\* a non-terminating source is followed for MaxPull elements
WithinPull == xs.ending = "forever" => cursor < MaxPull

\* one next() on the generator: its frame moves on, a yielded part is
\* appended to the output, an exception is recorded and ends the generator
NextPart ==
    /\ Live
    /\ WithinPull
    /\ LET r == GenNext(xs, number, length, g, cursor)
       IN  /\ g' = r.g
           /\ cursor' = r.cursor
           /\ err' = r.err
           /\ out' = IF r.result = "yield" THEN Append(out, r.part) ELSE out
           /\ taken' = IF r.result = "yield" /\ ~Sized(xs)
                       THEN Append(taken, <<>>) ELSE taken
    /\ UNCHANGED <<xs, number, length>>
    /\ UNCHANGED prodVars
    /\ UNCHANGED cartVars

\* number only
NextA ==
    /\ Branch(number, length) = "A"
    /\ NextPart

\* length only, an integer
NextB ==
    /\ Branch(number, length) = "B"
    /\ NextPart

\* length only, an iterable of integers
NextC ==
    /\ Branch(number, length) = "C"
    /\ NextPart

\* number and length
NextD ==
    /\ Branch(number, length) = "D"
    /\ NextPart

\* neither
NextNone ==
    /\ Branch(number, length) = "none"
    /\ NextPart

\* an argument of the wrong type
NextInvalid ==
    /\ Branch(number, length) = "invalid"
    /\ NextPart

\* the consumer's next() on the k-th part of a pull-only input: the chained
\* head element first, then islice pulls off the shared cursor
Take(k) ==
    /\ ~Sized(xs)
    /\ k \in 1..Len(out)
    /\ WithinPull
    /\ LET v == out[k]
       IN  IF v.head # <<>>
           THEN /\ taken' = [taken EXCEPT ![k] = Append(@, v.head[1])]
                /\ out' = [out EXCEPT ![k].head = <<>>]
                /\ cursor' = cursor
           ELSE /\ v.rem > 0
                /\ SrcHas(xs, cursor)
                /\ taken' = [taken EXCEPT ![k] = Append(@, SrcItem(xs, cursor + 1))]
                /\ out' = [out EXCEPT ![k].rem = v.rem - 1]
                /\ cursor' = cursor + 1
    /\ UNCHANGED <<xs, number, length, g, err>>
    /\ UNCHANGED prodVars
    /\ UNCHANGED cartVars

TakeAny == \E k \in 1..Len(out) : Take(k)

\* the consumer's next() on the k-th part when the source raises: the
\* exception goes to the consumer, islice drops its iterator and the
\* source is finished
TakeRaise(k) ==
    /\ ~Sized(xs)
    /\ k \in 1..Len(out)
    /\ out[k].head = <<>>
    /\ out[k].rem > 0
    /\ SrcRaises(xs, cursor)
    /\ cursor' = cursor + 1
    /\ out' = [out EXCEPT ![k].rem = 0]
    /\ UNCHANGED <<xs, number, length, g, err, taken>>
    /\ UNCHANGED prodVars
    /\ UNCHANGED cartVars

TakeRaiseAny == \E k \in 1..Len(out) : TakeRaise(k)

vars == <<xs, number, length, g, cursor, out, taken, err,
          factors, pnumber, called, subsets, listed,
          stock, cartlist, items, payment, request, handled>>

\* no request of the shop: the requests of the cart are not part of the
\* calls of parts() and products()
NoRequest == [view |-> "none", user |-> 0, product_id |-> 0, method |-> "GET"]

\* the shop is not in use: no product, no user, no row
NoCart ==
    /\ stock = <<>>
    /\ cartlist = {}
    /\ items = <<>>
    /\ payment = <<>>
    /\ request = NoRequest
    /\ handled = 0

\* products() is not called
NoProducts ==
    /\ factors = <<>>
    /\ pnumber = <<>>
    /\ called = "no"
    /\ subsets = <<>>
    /\ listed = <<>>

InitCall ==
    /\ number \in Numbers
    /\ length \in Lengths
    /\ g = Frame0
    /\ cursor = 0
    /\ out = <<>>
    /\ taken = <<>>
    /\ err = "none"
    /\ NoProducts
    /\ NoCart

\* parts() of a sized input
Init == xs \in SizedInputs /\ InitCall

Next == NextA \/ NextB \/ NextC \/ NextD \/ NextNone

Spec == Init /\ [][Next]_vars

\* parts() of a pull-only input, its parts consumed in any order
InitPull == xs \in PullInputs /\ InitCall

NextPull == NextA \/ NextB \/ NextC \/ NextD \/ NextNone \/ TakeAny

SpecPull == InitPull /\ [][NextPull]_vars

\* ------------------------------------------------------------------------
\* Claims about parts() of a sized input (specification Spec)
\* ------------------------------------------------------------------------
n_ == Len(xs.items)

Done == g.pc = "done"

InBranch(b) == Branch(number, length) = b

\* the lengths of the parts yielded so far
OutLens == [j \in 1..Len(out) |-> Len(out[j])]

\* no entry of the list of lengths is negative (true when length is no list)
NonNegEntries == \A j \in 1..Len(length.l) : length.l[j] >= 0

\* a non-empty list of positive lengths, or no list at all
PositiveEntries ==
    length.tag = "list" =>
        Len(length.l) > 0 /\ \A j \in 1..Len(length.l) : length.l[j] >= 1

\* C1 as stated: whenever parts() of a sized input ends without an error,
\* the parts yielded, concatenated in order, are the input (here even with
\* "valid" read narrowly: a list of lengths is non-empty and positive).
C1_Coverage ==
    (Done /\ PositiveEntries) => Concat(out) = xs.items

\* C1 amended: when parts() of a sized input ends without an error, the
\* concatenated parts are the input for number only, integer length only,
\* number with integer length, and number with a list of non-negative
\* lengths; for a list of non-negative lengths alone they are the first
\* min(n, sum of the list) elements of the input, so the input is covered
\* exactly when the list sums to at least n.
C1_CoverageAmended ==
    (Done /\ NonNegEntries) =>
        IF InBranch("C")
        THEN Concat(out) = SubSeq(xs.items, 1, Min(n_, Sum(length.l)))
        ELSE Concat(out) = xs.items

\* a list of lengths alone that sums to less than the input: parts were
\* yielded, no error was raised, the tail of the input was never produced
C1_Witness ==
    /\ Done
    /\ InBranch("C")
    /\ PositiveEntries
    /\ Len(out) >= 2
    /\ Sum(length.l) < n_

\* C2: number only, on a non-empty sized input of length n, for any integer
\* k: no error; exactly max(1, min(n, k)) parts once the generator ends;
\* every part non-empty; no two parts differ in length by more than 1; and
\* with k >= n every part has one element.
C2_CountExact ==
    (InBranch("A") /\ n_ >= 1) =>
        LET k == number[1]
            K == IF k > n_ THEN n_ ELSE IF k < 1 THEN 1 ELSE k
        IN  /\ err = "none"
            /\ Len(out) <= K
            /\ Done => Len(out) = K
            /\ \A j \in 1..Len(out) : OutLens[j] >= 1
            /\ Done => \A i, j \in 1..Len(out) : OutLens[i] - OutLens[j] <= 1
            /\ k >= n_ => \A j \in 1..Len(out) : OutLens[j] = 1

\* number larger than the input: clamped, one element per part
C2_Witness ==
    /\ InBranch("A")
    /\ Done
    /\ number[1] > n_
    /\ n_ >= 3
    /\ Len(out) = n_

\* C3: integer length only, on a sized input of length n, L = max(1,
\* length): no error is raised; no part is empty or longer than L; every
\* part but the last has exactly L elements; ceil(n / L) parts in all (none
\* for an empty input).
C3_FixedLength ==
    InBranch("B") =>
        LET L == IF length.n < 1 THEN 1 ELSE length.n
        IN  /\ err = "none"
            /\ \A j \in 1..Len(out) : OutLens[j] >= 1 /\ OutLens[j] <= L
            /\ \A j \in 1..(Len(out) - 1) : OutLens[j] = L
            /\ Done => Len(out) = (n_ + L - 1) \div L

\* several parts, the last one shorter
C3_Witness ==
    /\ InBranch("B")
    /\ Done
    /\ Len(out) >= 2
    /\ OutLens[Len(out)] < length.n

\* C4 as stated: a list of lengths alone that sums to less than the length
\* of the input makes parts() raise "too few items" instead of completing.
C4_ShortListRaises ==
    (InBranch("C") /\ PositiveEntries /\ Sum(length.l) < n_ /\ ~Live) =>
        err = ErrTooFew

\* the entry at position j has nothing left to take: it is 0, or the
\* entries before it already reach the end of the input
Starved(j) == length.l[j] = 0 \/ Sum(SubSeq(length.l, 1, j - 1)) >= n_

\* C4 amended: with a list of non-negative lengths alone, parts() raises
\* "too few items" exactly when some entry has nothing left to take (it is
\* 0, or the entries before it sum to at least n, as in [1,1,1,1] on three
\* elements) and it does so on reaching the first such entry; a list of
\* positive lengths summing to less than n completes without an error.
C4_TooFewAmended ==
    (InBranch("C") /\ NonNegEntries) =>
        LET bad == {j \in 1..Len(length.l) : Starved(j)}
        IN  /\ err \in {"none", ErrTooFew}
            /\ err = ErrTooFew <=> (bad # {} /\ g.pos \in bad)
            /\ \A j \in bad : g.pos <= j
            /\ (~Live /\ bad = {}) => (Done /\ Len(out) = Len(length.l))

\* the list asks for one part more than the input has elements for
C4_Witness ==
    /\ InBranch("C")
    /\ PositiveEntries
    /\ err = ErrTooFew
    /\ Len(out) >= 2
    /\ Sum(length.l) > n_

\* C5: number with an integer length, on a sized input of length n, L =
\* max(1, length): parts() succeeds exactly when L*(number-1) < n <=
\* L*number; otherwise it raises "cannot retrieve ... parts" with no part
\* yielded; when it succeeds it yields `number` parts, each of L elements,
\* the last one of 1 to L elements.
C5_CountWithLength ==
    (InBranch("D") /\ length.tag = "int" /\ g.pc # "start") =>
        LET k == number[1]
            L == IF length.n < 1 THEN 1 ELSE length.n
        IN  IF L * (k - 1) < n_ /\ n_ <= L * k
            THEN /\ err = "none"
                 /\ Len(out) <= k
                 /\ Done => Len(out) = k
                 /\ \A j \in 1..Len(out) :
                        /\ j < k => OutLens[j] = L
                        /\ j = k => OutLens[j] >= 1 /\ OutLens[j] <= L
            ELSE err = ErrUnsat /\ out = <<>> /\ g.pc = "raised"

\* number parts were yielded, the last one shorter than the others
C5_Witness ==
    /\ InBranch("D")
    /\ length.tag = "int"
    /\ Done
    /\ Len(out) = number[1]
    /\ Len(out) >= 2
    /\ OutLens[Len(out)] < length.n

\* what C6 says of a call with number and a list of lengths
C6_Statement ==
    LET k == number[1]
        l == length.l
        expected ==
            IF Len(l) # k THEN ErrMismatch
            ELSE IF n_ <= Sum(AllButLast(l)) THEN ErrTooFew
            ELSE IF n_ > Sum(l) THEN ErrTooMany
            ELSE "none"
    IN  /\ err = expected
        /\ expected # "none" => out = <<>> /\ g.pc = "raised"
        /\ expected = "none" =>
              /\ Len(out) <= k
              /\ Done => Len(out) = k
              /\ \A j \in 1..Len(out) :
                     /\ j < k => OutLens[j] = l[j]
                     /\ j = k => OutLens[j] = Min(l[j], n_ - Sum(AllButLast(l)))

\* C6 as stated: number with a list of integers, on a sized input of length
\* n: "does not match" unless the list has `number` entries, else "too few
\* items" if n <= the sum of all entries but the last, else "too many
\* items" if n > the sum of all entries, each before any part; otherwise
\* `number` parts whose lengths are the entries, the last one cut at the
\* end of the input.
C6_ListChecks ==
    (InBranch("D") /\ length.tag = "list" /\ g.pc # "start") => C6_Statement

\* C6 amended: the same, for a list of non-negative integers (a negative
\* entry is taken as a slice bound counted from the end of the input, and
\* the part yielded for it does not have the entry's length).
C6_ListChecksAmended ==
    (InBranch("D") /\ length.tag = "list" /\ g.pc # "start" /\ NonNegEntries)
        => C6_Statement

\* the list passes the three checks and the last part is cut short
C6_Witness ==
    /\ InBranch("D")
    /\ length.tag = "list"
    /\ Done
    /\ Len(out) = 3
    /\ NonNegEntries
    /\ OutLens[3] < length.l[3]


\* parts(xs, length=n) of a pull-only input whose consumer drains every
\* part before asking for the next one
Drained(v) == v.head = <<>> /\ (v.rem = 0 \/ ~SrcHas(xs, cursor))

AllDrained == \A k \in 1..Len(out) : Drained(out[k])

InitDrain ==
    /\ InitPull
    /\ Branch(number, length) = "B"

NextBDrained ==
    /\ AllDrained
    /\ NextB

NextDrain == NextBDrained \/ TakeAny

SpecDrain == InitDrain /\ [][NextDrain]_vars

\* ------------------------------------------------------------------------
\* products()
\* ------------------------------------------------------------------------
\* most factors given to products()
MaxFactors == 3
\* longest factor
MaxFactorLen == 2
\* largest number of subsets asked for
MaxNumber == 5

ErrNonPositive == "ValueError: number of disjoint subsets must be a positive integer"

RECURSIVE Product(_)
\* mutant: the product of no factors has no tuple
Product_noempty(fs) ==
    IF fs = <<>>
    THEN <<>>
    ELSE LET rest == Product(Tail(fs))
         IN  Concat([i \in 1..Len(fs[1]) |->
                        [j \in 1..Len(rest) |-> <<fs[1][i]>> \o rest[j]]])

\* list(itertools.product(*fs)): the tuples in lexicographic order, the
\* last factor varying fastest; the empty tuple alone for no factors
Product(fs) ==
    IF fs = <<>>
    THEN << <<>> >>
    ELSE LET rest == Product(Tail(fs))
         IN  Concat([i \in 1..Len(fs[1]) |->
                        [j \in 1..Len(rest) |-> <<fs[1][i]>> \o rest[j]]])

RECURSIVE ListParts(_, _, _, _, _)
\* list(parts(x, num, len)): next() until the generator returns or raises
ListParts(x, num, len, f, acc) ==
    LET r == GenNext(x, num, len, f, 0)
    IN  IF r.result = "yield"
        THEN ListParts(x, num, len, r.g, Append(acc, r.part))
        ELSE [parts |-> acc, err |-> r.err]

RECURSIVE PrefixIndex(_, _, _, _)
\* mutant: the running product must exceed number (number_ > number)
PrefixIndex_strict(fs, num, i, number_) ==
    IF i >= Len(fs)
    THEN Len(fs)
    ELSE IF number_ * Len(fs[i + 1]) > num
         THEN Min(Len(fs), i + 1)
         ELSE PrefixIndex(fs, num, i + 1, number_ * Len(fs[i + 1]))

\* the loop over enumerate(factors): the index after the first factor at
\* which the running product of sizes reaches number, len(factors) if none
PrefixIndex(fs, num, i, number_) ==
    IF i >= Len(fs)
    THEN Len(fs)
    ELSE IF number_ * Len(fs[i + 1]) >= num
         THEN Min(Len(fs), i + 1)
         ELSE PrefixIndex(fs, num, i + 1, number_ * Len(fs[i + 1]))

\* mutant: the suffix starts one factor late (factors[index + 1:])
SuffixFactors_late(fs, index) == SubSeq(fs, index + 2, Len(fs))

\* factors[index:]
SuffixFactors(fs, index) == SubSeq(fs, index + 1, Len(fs))

\* an iterator returned by products(): itertools.product(*factors) (kind
\* "product") or generator(prefix) (kind "generator"), at prefix tuple p
\* and suffix tuple s, both counted from 1
ProductIter(fs) ==
    [kind |-> "product", prefix |-> << <<>> >>, index |-> 0, p |-> 1, s |-> 1]

GeneratorIter(prefix, index) ==
    [kind |-> "generator", prefix |-> prefix, index |-> index, p |-> 1, s |-> 1]

\* mutant: the loops of generator() are nested the other way round
\* (for s in product(*factors[index:]): for p in prefix)
IterNext_swapped(fs, it) ==
    LET sp == Product(SuffixFactors(fs, it.index))
    IN  IF it.s > Len(sp) \/ it.prefix = <<>>
        THEN [stop |-> TRUE, item |-> <<>>, it |-> it]
        ELSE [stop |-> FALSE,
              item |-> it.prefix[it.p] \o sp[it.s],
              it |-> IF it.p < Len(it.prefix)
                     THEN [it EXCEPT !.p = it.p + 1]
                     ELSE [it EXCEPT !.s = it.s + 1, !.p = 1]]

\* one next() on such an iterator: the tuple p + s, or StopIteration
IterNext(fs, it) ==
    LET sp == Product(SuffixFactors(fs, it.index))
    IN  IF it.p > Len(it.prefix) \/ sp = <<>>
        THEN [stop |-> TRUE, item |-> <<>>, it |-> it]
        ELSE [stop |-> FALSE,
              item |-> it.prefix[it.p] \o sp[it.s],
              it |-> IF it.s < Len(sp)
                     THEN [it EXCEPT !.s = it.s + 1]
                     ELSE [it EXCEPT !.p = it.p + 1, !.s = 1]]

RECURSIVE ListIter(_, _, _)
\* list(it)
ListIter(fs, it, acc) ==
    LET r == IterNext(fs, it)
    IN  IF r.stop THEN acc ELSE ListIter(fs, r.it, Append(acc, r.item))

\* products(*fs, number=num): the list returned, or the exception raised
products(fs, num) ==
    IF num # <<>> /\ num[1] < 1
    THEN [err |-> ErrNonPositive, subsets |-> <<>>]
    ELSE IF num = <<>> \/ num[1] = 1
    THEN [err |-> "none", subsets |-> <<ProductIter(fs)>>]
    ELSE LET index    == PrefixIndex(fs, num[1], 0, 1)
             prefixes == ListParts(
                            [kind |-> "sized", items |-> Product(SubSeq(fs, 1, index)),
                             ending |-> "stop"],
                            num, NoLength, Frame0, <<>>)
         IN  [err |-> prefixes.err,
              subsets |-> [k \in 1..Len(prefixes.parts) |->
                              GeneratorIter(prefixes.parts[k], index)]]

\* factors: 1..n, and 1..n with its second element repeating the first
\* (a list may hold an element twice)
FactorChoices ==
    {Iota(n) : n \in 0..MaxFactorLen}
        \cup {[i \in 1..n |-> IF i = 2 THEN 1 ELSE i] : n \in 2..MaxFactorLen}

InitProducts ==
    /\ factors \in UNION {[1..k -> FactorChoices] : k \in 0..MaxFactors}
    /\ pnumber \in {<<>>} \cup {<<k>> : k \in 0..MaxNumber}
    /\ called = "no"
    /\ subsets = <<>>
    /\ listed = <<>>
    /\ xs = [kind |-> "sized", items |-> <<>>, ending |-> "stop"]
    /\ number = <<>>
    /\ length = NoLength
    /\ g = Frame0
    /\ cursor = 0
    /\ out = <<>>
    /\ taken = <<>>
    /\ err = "none"
    /\ NoCart

\* ss = products(*factors, number=pnumber)
CallProducts ==
    /\ called = "no"
    /\ LET r == products(factors, pnumber)
       IN  /\ called' = IF r.err = "none" THEN "returned" ELSE "raised"
           /\ err' = r.err
           /\ subsets' = r.subsets
    /\ UNCHANGED <<factors, pnumber, listed>>
    /\ UNCHANGED <<xs, number, length, g, cursor, out, taken>>
    /\ UNCHANGED cartVars

\* list(s) for the next iterator s of ss.  The iterators share no state
\* (each closes over the factors, which nothing changes), so the order of
\* consumption is immaterial; they are consumed as [list(s) for s in ss].
ListNext ==
    /\ called = "returned"
    /\ Len(listed) < Len(subsets)
    /\ listed' = Append(listed, ListIter(factors, subsets[Len(listed) + 1], <<>>))
    /\ UNCHANGED <<factors, pnumber, called, subsets>>
    /\ UNCHANGED partsVars
    /\ UNCHANGED cartVars

NextProducts == CallProducts \/ ListNext

SpecProducts == InitProducts /\ [][NextProducts]_vars

\* ------------------------------------------------------------------------
\* Claims about parts() of a pull-only input
\* ------------------------------------------------------------------------
\* what the k-th part has delivered or still holds in front
Delivered(k) == taken[k] \o out[k].head

\* C7 (specification SpecPull): on a pull-only input a number, alone or
\* with a length, makes the first next() raise "object must have length
\* ...": no part is yielded and nothing is pulled, the shared cursor is
\* where it was before the call (at 0).
C7_RequiresLength ==
    (~Sized(xs) /\ number # <<>> /\ g.pc # "start") =>
        /\ g.pc = "raised"
        /\ err = (IF length.tag = "none" THEN ErrLenNumber ELSE ErrLenParts)
        /\ out = <<>>
        /\ cursor = 0

\* a non-empty pull-only input refused for its missing length
C7_Witness ==
    /\ ~Sized(xs)
    /\ Len(xs.items) >= 2
    /\ number # <<>>
    /\ length.tag = "none"
    /\ err = ErrLenNumber

\* C8 (specification SpecDrain): integer length only on a pull-only source,
\* every part drained before the next is requested, L = max(1, length): no
\* error is ever raised and no length is asked for; the k-th part is never
\* empty and delivers source elements (k-1)*L+1 .. k*L in order (fewer only
\* at the end of a finite source); once a finite source is used up the
\* parts concatenate to the source; on a non-terminating source the
\* generator never ends, each request yields a part.
C8_PullOnlyFixedLength ==
    LET L == IF length.n < 1 THEN 1 ELSE length.n
    IN  /\ err = "none"
        /\ g.pc # "raised"
        /\ \A k \in 1..Len(out) :
              /\ Len(Delivered(k)) >= 1
              /\ Len(Delivered(k)) <= L
              /\ \A i \in 1..Len(Delivered(k)) :
                     Delivered(k)[i] = SrcItem(xs, (k - 1) * L + i)
              /\ (Drained(out[k]) /\ xs.ending = "forever") => Len(taken[k]) = L
              /\ (Drained(out[k]) /\ xs.ending = "stop") =>
                     Len(taken[k]) = Min(L, Len(xs.items) - (k - 1) * L)
        /\ (Done /\ AllDrained) => Concat(taken) = xs.items
        /\ xs.ending = "forever" => Live
        /\ (xs.ending = "forever" /\ g.pc # "start") => Len(out) >= 1

\* three parts of a non-terminating source, drained one after the other
C8_Witness ==
    /\ xs.ending = "forever"
    /\ length.n = 2
    /\ Len(out) = 3
    /\ AllDrained

\* C9 as stated (specification SpecPull): integer length only on a
\* pull-only input, parts consumed in any order, L = max(1, length): no
\* error is raised, and a later part starts after the elements an earlier
\* part has left undelivered, i.e. the k-th part delivers nothing before
\* source element (k-1)*L+1.
C9_SkipsRemainder ==
    (~Sized(xs) /\ InBranch("B")) =>
        LET L == IF length.n < 1 THEN 1 ELSE length.n
        IN  /\ err = "none"
            /\ \A k \in 1..Len(out) : \A i \in 1..Len(Delivered(k)) :
                   Delivered(k)[i] > (k - 1) * L

\* C9 amended (specification SpecPull): no error is raised, and nothing is
\* skipped: every part takes its elements off the shared cursor as they
\* come, so a later part requested and consumed before an earlier one is
\* drained delivers the elements the earlier one had not yet delivered.
\* Over all parts, the elements delivered are exactly the first `cursor`
\* elements of the source, each delivered once, in increasing order within
\* each part, and never more than L by one part.
C9_NothingSkipped ==
    (~Sized(xs) /\ InBranch("B")) =>
        LET L == IF length.n < 1 THEN 1 ELSE length.n
        IN  /\ err = "none"
            /\ Len(Concat([k \in 1..Len(out) |-> Delivered(k)])) = cursor
            /\ \A p \in 1..cursor : \E k \in 1..Len(out) :
                   \E i \in 1..Len(Delivered(k)) : Delivered(k)[i] = SrcItem(xs, p)
            /\ \A k \in 1..Len(out) :
                   /\ Len(Delivered(k)) <= L
                   /\ \A i \in 1..(Len(Delivered(k)) - 1) :
                          Delivered(k)[i] < Delivered(k)[i + 1]

\* the first part was never touched, the second one has delivered the two
\* elements that follow the first part's head
C9_Witness ==
    /\ ~Sized(xs)
    /\ InBranch("B")
    /\ length.n = 3
    /\ Len(out) >= 2
    /\ out[1].head = <<1>>
    /\ taken[2] = <<2, 3>>

\* ------------------------------------------------------------------------
\* Claims about products() (specification SpecProducts)
\* ------------------------------------------------------------------------
Range(q) == {q[i] : i \in 1..Len(q)}

\* products() returned and every iterator it returned has been consumed
AllListed == called = "returned" /\ Len(listed) = Len(subsets)

\* the tuples of the subsets, as sets, pairwise disjoint
PairwiseDisjoint ==
    \A i, j \in 1..Len(listed) : i # j => Range(listed[i]) \cap Range(listed[j]) = {}

\* the union of the subsets is the Cartesian product of the factors
CoversProduct == UNION {Range(listed[k]) : k \in 1..Len(listed)} = Range(Product(factors))

\* no factor holds an element twice
DistinctFactors ==
    \A f \in 1..Len(factors) : Cardinality(Range(factors[f])) = Len(factors[f])

Asked == IF pnumber = <<>> THEN 1 ELSE pnumber[1]

RECURSIVE Size(_)
\* the product of the sizes of the factors fs
Size(fs) == IF fs = <<>> THEN 1 ELSE Len(fs[1]) * Size(Tail(fs))

\* C11 as stated: for any factors and any valid number (absent meaning 1),
\* products() returns exactly min(number, total product size) iterators,
\* the total product size being the product of the factor sizes; more
\* subsets asked for than the product has tuples gives one subset per
\* tuple, not an error.
C11_PartitionCount ==
    called # "no" =>
        /\ (Asked >= 1 => called = "returned")
        /\ (called = "returned" => Len(subsets) = Min(Asked, Size(factors)))

\* products([1, 2], [], number=2) has returned: two iterators for a
\* Cartesian product that has no tuple
C11_Witness ==
    /\ called = "returned"
    /\ factors = <<Iota(2), <<>> >>
    /\ pnumber = <<2>>
    /\ Len(subsets) = 2
    /\ Size(factors) = 0

\* C12: products() called with no factor returns, for every valid number
\* (absent, 1, or more than 1), exactly one iterator, and that iterator
\* yields exactly one tuple, the empty one.
C12_ZeroFactors ==
    (factors = <<>> /\ Asked >= 1 /\ called # "no") =>
        /\ called = "returned"
        /\ Len(subsets) = 1
        /\ Len(listed) = 1 => listed[1] = << <<>> >>

\* products(number=3) has returned and its one iterator has been listed
C12_Witness ==
    /\ factors = <<>>
    /\ pnumber = <<3>>
    /\ called = "returned"
    /\ listed = << << <<>> >> >>

\* whether q is an initial segment of r
IsPrefix(q, r) == Len(q) <= Len(r) /\ q = SubSeq(r, 1, Len(q))

\* C18: the iterators returned by products(), listed in the order returned
\* and concatenated, give the sequence itertools.product gives for the
\* factors: each iterator yields a contiguous run of the lexicographic
\* order of the full product, in that order, the runs follow each other
\* without gap or overlap, and with number absent or 1 the single iterator
\* yields the full sequence.
C18_ProductOrder ==
    called = "returned" =>
        /\ IsPrefix(Concat(listed), Product(factors))
        /\ AllListed => Concat(listed) = Product(factors)
        /\ (AllListed /\ Asked = 1) =>
               /\ Len(listed) = 1
               /\ listed[1] = Product(factors)

\* three factors of two distinct elements in three subsets: the prefix is
\* the first two factors, the runs are of 2, 2 and 4 tuples
C18_Witness ==
    /\ AllListed
    /\ DistinctFactors
    /\ Len(factors) = 3
    /\ pnumber = <<3>>
    /\ Len(listed) = 3
    /\ Len(listed[3]) = 4
    /\ listed[2] = << <<1, 2, 1>>, <<1, 2, 2>> >>

\* the leading runs of the factors whose product of sizes reaches number
Reaching == {j \in 1..Len(factors) : Size(SubSeq(factors, 1, j)) >= Asked}

\* the shortest of them, the whole list of factors if there is none
ShortestPrefix ==
    IF Reaching = {}
    THEN Len(factors)
    ELSE CHOOSE j \in Reaching : \A i \in Reaching : j <= i

\* the tuples p + s for p in the run q of prefix tuples and s in the
\* product of the factors after the first idx
WithSuffix(q, idx) ==
    LET sp == Product(SubSeq(factors, idx + 1, Len(factors)))
    IN  Concat([i \in 1..Len(q) |-> [j \in 1..Len(sp) |-> q[i] \o sp[j]]])

\* C19: for number > 1 the prefix that products() materializes is the
\* shortest leading run of factors whose product of sizes is >= number,
\* the whole list of factors when even the product of all sizes is below
\* number; parts() splits the Cartesian product of that prefix and of
\* nothing else (the runs given to the iterators, put together, are the
\* product of the prefix factors), and the factors after the prefix come in
\* only as the suffix product appended to each prefix tuple.
C19_PrefixSelection ==
    (called = "returned" /\ Asked > 1) =>
        /\ \A k \in 1..Len(subsets) :
              /\ subsets[k].kind = "generator"
              /\ subsets[k].index = ShortestPrefix
        /\ Concat([k \in 1..Len(subsets) |-> subsets[k].prefix])
               = Product(SubSeq(factors, 1, ShortestPrefix))
        /\ \A k \in 1..Len(listed) :
               listed[k] = WithSuffix(subsets[k].prefix, ShortestPrefix)

\* three factors of two elements and number = 4: the first factor alone
\* does not reach 4, the first two do; four subsets of two tuples each
C19_Witness ==
    /\ AllListed
    /\ pnumber = <<4>>
    /\ Len(factors) = 3
    /\ \A f \in 1..3 : Len(factors[f]) = 2
    /\ Len(subsets) = 4
    /\ subsets[1].index = 2
    /\ Len(listed[4]) = 2

\* how many tuples each listed iterator yielded
ListedLens == [k \in 1..Len(listed) |-> Len(listed[k])]

\* the size of the product of the factors after the chosen prefix
SuffixSize == Size(SubSeq(factors, ShortestPrefix + 1, Len(factors)))

\* C20: for number > 1 and a Cartesian product that is not empty, every
\* iterator returned by products() yields at least one tuple, the numbers
\* of tuples of any two of them differ by at most the size of the suffix
\* product, and they never decrease along the list returned (the smaller
\* subsets come first).
C20_ProductBalance ==
    (AllListed /\ Asked > 1 /\ Size(factors) > 0) =>
        /\ Len(listed) >= 1
        /\ \A k \in 1..Len(listed) : ListedLens[k] >= 1
        /\ \A i, j \in 1..Len(listed) :
               ListedLens[i] - ListedLens[j] <= SuffixSize
        /\ \A i, j \in 1..Len(listed) :
               i < j => ListedLens[i] <= ListedLens[j]

\* factors of 2, 2 and 2 elements in three subsets: the four prefix tuples
\* go 1, 1, 2 and each carries the suffix of 2, so 2, 2 and 4 tuples
C20_Witness ==
    /\ AllListed
    /\ pnumber = <<3>>
    /\ Len(factors) = 3
    /\ SuffixSize = 2
    /\ ListedLens = <<2, 2, 4>>

\* ------------------------------------------------------------------------
\* More claims about parts() of a sized input (specification Spec)
\* ------------------------------------------------------------------------
\* C14: number only on a sized input of n elements, k the number clamped
\* to [1, n].  Before every part the elements that remain are at least as
\* many as the parts that remain (for the part just yielded, and for the
\* next one when there is one); every part yielded has length floor(n/k)
\* or ceil(n/k); the lengths of the parts never decrease.
C14_Balanced ==
    (InBranch("A") /\ Sized(xs)) =>
        LET k == Max(1, Min(n_, number[1]))
        IN  /\ g.pc \in {"A_yield", "A_last"} =>
                   g.len_ - g.i >= g.number + 1
            /\ g.pc = "A_yield" =>
                   /\ g.number >= 1
                   /\ g.len_ - (g.i + g.length) >= g.number
            /\ \A j \in 1..Len(out) :
                   \/ OutLens[j] = n_ \div k
                   \/ OutLens[j] = (n_ + k - 1) \div k
            /\ \A j \in 1..(Len(out) - 1) : OutLens[j] <= OutLens[j + 1]

\* five elements in three parts of 1, 2 and 2: the length is 5 // 3 = 1
\* for the first part and (5 - 1) // 2 = 2 from then on
C14_Witness ==
    /\ InBranch("A")
    /\ n_ = 5
    /\ number = <<3>>
    /\ Done
    /\ OutLens = <<1, 2, 2>>

\* ------------------------------------------------------------------------
\* The emptiness probe by itself (specification SpecProbe)
\* ------------------------------------------------------------------------
\* a view of the next length.n elements of a pull-only input is made with
\* _slice(xs, 0, length.n) and either probed with _empty or left as it
\* is; then it is drained.  g.pc tells which: "empty" or "nonempty" is
\* the answer of the probe, "viewed" a view that was not probed.
InitProbe ==
    /\ InitPull
    /\ number = <<>>
    /\ length.tag = "int"
    /\ length.n >= 0

\* (part, empty) = _empty(_slice(xs, 0, length.n))
Probe ==
    /\ g.pc = "start"
    /\ LET e == _empty(xs, cursor, _slice(xs, 0, length.n).part)
       IN  /\ out' = <<e.part>>
           /\ taken' = << <<>> >>
           /\ cursor' = e.cursor
           /\ g' = [g EXCEPT !.pc = IF e.empty THEN "empty" ELSE "nonempty"]
    /\ UNCHANGED <<xs, number, length, err>>
    /\ UNCHANGED prodVars
    /\ UNCHANGED cartVars

\* part = _slice(xs, 0, length.n), not probed
View ==
    /\ g.pc = "start"
    /\ out' = <<_slice(xs, 0, length.n).part>>
    /\ taken' = << <<>> >>
    /\ g' = [g EXCEPT !.pc = "viewed"]
    /\ UNCHANGED <<xs, number, length, cursor, err>>
    /\ UNCHANGED prodVars
    /\ UNCHANGED cartVars

NextProbe == Probe \/ View \/ TakeAny

SpecProbe == InitProbe /\ [][NextProbe]_vars

\* how many elements a view of length.n elements of the source can give
Available ==
    IF xs.ending = "forever" THEN length.n ELSE Min(length.n, Len(xs.items))

\* C16 (specification SpecProbe): the probe pulls at most one element; it
\* answers "empty" exactly when the view has nothing to give, and then it
\* has pulled nothing; otherwise the view it returns holds the pulled
\* element in front.  Probed or not, the view delivers the elements of the
\* source from the first on, in order, nothing pulled off the source is
\* lost, and drained it has delivered the same elements.
C16_ProbeNonDestructive ==
    g.pc # "start" =>
        /\ (g.pc \in {"empty", "nonempty"} /\ taken[1] = <<>>) => cursor <= 1
        /\ g.pc = "empty" => (Available = 0 /\ cursor = 0 /\ out[1].head = <<>>)
        /\ g.pc = "nonempty" => Available > 0
        /\ (g.pc = "nonempty" /\ taken[1] = <<>>) =>
               (cursor = 1 /\ out[1].head = <<SrcItem(xs, 1)>>)
        /\ Len(Delivered(1)) = cursor
        /\ \A i \in 1..Len(Delivered(1)) : Delivered(1)[i] = SrcItem(xs, i)
        /\ Drained(out[1]) =>
               taken[1] = [i \in 1..Available |-> SrcItem(xs, i)]

\* a probed view of three elements, answered non-empty, drained: the
\* three elements came out, the pulled one first
C16_Witness ==
    /\ g.pc = "nonempty"
    /\ length.n = 3
    /\ Len(xs.items) = 3
    /\ Drained(out[1])
    /\ taken[1] = <<1, 2, 3>>

\* ------------------------------------------------------------------------
\* parts() of a pull-only input that raises (specification SpecRaise)
\* ------------------------------------------------------------------------
\* generators that give 1..n and then raise, as error() in the doctest
RaisingInputs ==
    {[kind |-> "pull", items |-> Iota(n), ending |-> "raise"] : n \in 0..MaxSrc}

\* parts(xs, length=...) of such an input: the branches that pull
InitRaise ==
    /\ xs \in RaisingInputs
    /\ InitCall
    /\ Branch(number, length) \in {"B", "C"}

NextRaise == NextB \/ NextC \/ TakeAny \/ TakeRaiseAny

SpecRaise == InitRaise /\ [][NextRaise]_vars

\* once parts() has raised the error of the source: the generator is
\* finished by that error (not by an end of sequence), the source was
\* pulled up to its raise, and the parts yielded before hold, each at least
\* one and together all, the elements the source gave, in order
SourceErrorState ==
    err = ErrSource =>
        /\ g.pc = "raised"
        /\ cursor = Len(xs.items) + 1
        /\ \A k \in 1..Len(out) : Len(Delivered(k)) >= 1
        /\ Len(Concat([k \in 1..Len(out) |-> Delivered(k)])) = Len(xs.items)
        /\ \A k \in 1..Len(out) : \A i \in 1..Len(Delivered(k)) :
               Delivered(k)[i] \in 1..Len(xs.items)

\* a request for the next part that pulls from the source where it raises
\* ends in that error, with no part yielded
SourceErrorStep ==
    (NextPart /\ SrcRaises(xs, cursor) /\ cursor' # cursor) =>
        /\ err' = ErrSource
        /\ g'.pc = "raised"
        /\ out' = out
        /\ taken' = taken

\* after it no part is produced and the error stays
SourceErrorAfter ==
    err = ErrSource => (g' = g /\ err' = err /\ Len(out') = Len(out))

\* C17 (specification SpecRaise): when the pull that parts() makes to
\* probe for the next part raises an error of the source, that error is
\* what the request raises: it is not retried, it is not taken for the end
\* of the sequence, no part is produced at or after that request, and the
\* parts yielded before were yielded normally.
C17_SourceErrorPropagates ==
    /\ []SourceErrorState
    /\ [][SourceErrorStep /\ SourceErrorAfter]_vars

\* parts(error(), length=1) with two elements before the raise: two parts,
\* then the RuntimeError
C17_Witness ==
    /\ err = ErrSource
    /\ xs.ending = "raise"
    /\ Len(xs.items) = 2
    /\ length.tag = "int"
    /\ Len(out) = 2

\* ------------------------------------------------------------------------
\* parts() with arguments of any type (specification SpecTyped)
\* ------------------------------------------------------------------------
\* largest entry of a list of part lengths that may hold non-integers
MaxTyped == 2

\* a number argument that is not an integer: the string 'abc'
NotAnInt == <<"str", "abc">>

TypedLists == UNION {[1..k -> -1 .. MaxTyped] : k \in 0..MaxList}

\* lengths of every kind: none, neither integer nor iterable, an integer,
\* and lists or other iterables whose entries at the positions bad are no
\* integers (the entry kept there is 0 and is never used)
TypedLengths ==
    {NoLength, [tag |-> "other", n |-> 0, l |-> <<>>, bad |-> {}]}
        \cup {[tag |-> "int", n |-> n, l |-> <<>>, bad |-> {}] : n \in -1 .. MaxTyped}
        \cup UNION {{[tag |-> t, n |-> 0,
                      l |-> [j \in 1..Len(l) |-> IF j \in b THEN 0 ELSE l[j]],
                      bad |-> b] : t \in {"list", "tuple"}, b \in SUBSET (1..Len(l))}
                    : l \in TypedLists}

TypedNumbers == {<<>>, NotAnInt} \cup {<<k>> : k \in 0..MaxList}

InitTyped ==
    /\ xs \in SizedInputs \cup {x \in PullInputs : x.ending = "stop"}
    /\ number \in TypedNumbers
    /\ length \in TypedLengths
    /\ g = Frame0
    /\ cursor = 0
    /\ out = <<>>
    /\ taken = <<>>
    /\ err = "none"
    /\ NoProducts
    /\ NoCart

NextTyped ==
    NextA \/ NextB \/ NextC \/ NextD \/ NextNone \/ NextInvalid \/ TakeAny

SpecTyped == InitTyped /\ [][NextTyped]_vars

\* the call has an argument of the wrong type: a number that is no
\* integer, a length that is neither an integer nor iterable, an entry of
\* the length list that is no integer, or with a number a length that is
\* iterable but no list
TypeDefect ==
    \/ (number # <<>> /\ ~IsInt(number))
    \/ length.tag = "other"
    \/ length.bad # {}
    \/ (number # <<>> /\ length.tag = "tuple")

\* requires-known-length, insufficient-elements, excess-elements,
\* count-length-mismatch, unsatisfiable-count-length
ConstraintErrors ==
    {ErrLenNumber, ErrLenParts, ErrTooFew, ErrTooMany, ErrMismatch, ErrUnsat}

\* C13 as stated (specification SpecTyped): an unsatisfiable-constraint
\* error is raised only when every argument has passed its type check; a
\* call with an argument of the wrong type never ends in one.
C13_TypeErrorsFirst ==
    err \in ConstraintErrors => ~TypeDefect

\* C13 amended (specification SpecTyped): a number that is no integer, and
\* otherwise a length that is neither integer nor iterable, is refused at
\* the first request before anything else; with a number and a length on a
\* sized input, a length that is no list of integers is refused before
\* any check of the constraints.  A constraint error on a call with an
\* argument of the wrong type is raised in two cases only: a number with a
\* length on an input without a length (requires-known-length comes before
\* the check of the list), and a length list alone, where the entries are
\* checked as they are consumed and an earlier entry has run out of
\* elements before the entry of the wrong type is reached.
C13_TypeErrorsFirstAmended ==
    /\ (number # <<>> /\ ~IsInt(number) /\ g.pc # "start") =>
           (err = ErrNumberType /\ out = <<>> /\ cursor = 0)
    /\ ((number = <<>> \/ IsInt(number)) /\ length.tag = "other" /\ g.pc # "start") =>
           (err = ErrLenType /\ out = <<>> /\ cursor = 0)
    /\ (InBranch("D") /\ Sized(xs) /\ TypeDefect /\ g.pc # "start") =>
           (err = ErrLenList /\ out = <<>>)
    /\ (err \in ConstraintErrors /\ TypeDefect) =>
           \/ (InBranch("D") /\ ~Sized(xs) /\ err = ErrLenParts)
           \/ /\ InBranch("C")
              /\ err = ErrTooFew
              /\ \A j \in length.bad : j > Len(out) + 1

\* number = 3 with a list of two lengths whose first entry is no integer,
\* on a sized input of five elements: the count does not match the list
\* and the type error is the one raised
C13_Witness ==
    /\ Sized(xs)
    /\ n_ = 5
    /\ number = <<3>>
    /\ length.tag = "list"
    /\ Len(length.l) = 2
    /\ length.bad = {1}
    /\ err = ErrLenList

\* where the slice of entry k of the length list starts in a sized input
EntryStart(k) == Sum(SubSeq(length.l, 1, k - 1))

\* the entries up to the k-th are integers and none is negative
NonNegUpTo(k) == \A i \in 1..k : i \notin length.bad /\ length.l[i] >= 0

\* the k-th part has as many elements as its entry, fewer (but one at
\* least) only when it reaches the end of the input; on a sized input it
\* is the slice that starts where the entries before it end
PartFitsEntry(k) ==
    IF Sized(xs)
    THEN /\ Len(out[k]) >= 1
         /\ Len(out[k]) <= length.l[k]
         /\ Len(out[k]) < length.l[k] => EntryStart(k) + Len(out[k]) = n_
         /\ out[k] = SubSeq(xs.items, EntryStart(k) + 1, EntryStart(k) + Len(out[k]))
    ELSE /\ Len(Delivered(k)) >= 1
         /\ Len(Delivered(k)) <= length.l[k]
         /\ (Drained(out[k]) /\ Len(taken[k]) < length.l[k]) => ~SrcHas(xs, cursor)

\* insufficient-elements is raised for an entry whose slice is empty: the
\* entry is 0 or the input has nothing left at the current position
TooFewIsEmptySlice(j) ==
    err = ErrTooFew =>
        \/ length.l[j] <= 0
        \/ (Sized(xs) /\ EntryStart(j) >= n_)
        \/ (~Sized(xs) /\ ~SrcHas(xs, cursor))

\* C15 as stated (specification SpecTyped): a length list alone is consumed
\* entry by entry.  The parts yielded are those of the first entries, one
\* each, in order; an error is raised at the first entry that is no
\* integer (invalid-argument-type) or whose slice from the current
\* position is empty (insufficient-elements), after the parts of the
\* entries before it; with no such entry there is exactly one part per
\* entry; a part has the length of its entry, or less when it reaches the
\* end of the input.
C15_EntryByEntry ==
    InBranch("C") =>
        LET j == Len(out) + 1
        IN  /\ Len(out) <= Len(length.l)
            /\ \A k \in 1..Len(out) : k \notin length.bad /\ PartFitsEntry(k)
            /\ g.pc = "raised" =>
                   /\ j <= Len(length.l)
                   /\ err = (IF j \in length.bad THEN ErrLenType ELSE ErrTooFew)
                   /\ TooFewIsEmptySlice(j)
            /\ Done => Len(out) = Len(length.l)

\* C15 amended (specification SpecTyped): as stated, with a third way for
\* an entry to fail and the lengths of the parts said of non-negative
\* entries only.  An error is raised at the first entry that is no integer
\* (invalid-argument-type), or is negative on a pull-only input ("object
\* does not support retrieval of slices"), or whose slice from the current
\* position is empty (insufficient-elements), after the parts of the
\* entries before it; with no such entry there is exactly one part per
\* entry.  While no entry so far is negative a part has the length of its
\* entry, or less when it reaches the end of the input; on a sized input
\* a negative entry is a slice bound counted from the end and its part
\* can be longer than the entry.
C15_EntryByEntryAmended ==
    InBranch("C") =>
        LET j == Len(out) + 1
        IN  /\ Len(out) <= Len(length.l)
            /\ \A k \in 1..Len(out) :
                   /\ k \notin length.bad
                   /\ (IF Sized(xs) THEN Len(out[k]) ELSE Len(Delivered(k))) >= 1
                   /\ NonNegUpTo(k) => PartFitsEntry(k)
            /\ g.pc = "raised" =>
                   /\ j <= Len(length.l)
                   /\ err = (IF j \in length.bad THEN ErrLenType
                             ELSE IF ~Sized(xs) /\ length.l[j] < 0 THEN ErrNoSlices
                             ELSE ErrTooFew)
                   /\ NonNegUpTo(j) => TooFewIsEmptySlice(j)
            /\ Done => Len(out) = Len(length.l)

\* parts([1, 2, 3], length=[1, 1, 'a']): two parts, then the type error
\* at the third entry
C15_Witness ==
    /\ InBranch("C")
    /\ Sized(xs)
    /\ n_ = 3
    /\ Len(length.l) = 3
    /\ length.bad = {3}
    /\ out = << <<1>>, <<2>> >>
    /\ err = ErrLenType

\* ------------------------------------------------------------------------
\* The cart views (minishop/cart/views.py) on the rows of product,
\* cartlist, items and payment.  A request is handled as one action.
\* ------------------------------------------------------------------------
\* the users of the shop
MaxUsers == 2
\* the product rows of the shop
MaxProducts == 2
\* the largest stock a product starts with
MaxStock == 2
\* the requests handled in one run
MaxRequests == 6

\* request.user of a request without a login (AnonymousUser)
Anonymous == 0

Users == 1..MaxUsers

\* whoever sends a request
Clients == {Anonymous} \cup Users

\* the ids of the product rows
Products == 1..MaxProducts

\* the ids a URL may carry (<int:product_id>): 0 is the id of no row
ProductIds == {0} \cup Products

\* items.objects.get(prod=prod, cart=ct) finds a row
HasItem(u, pid) == <<u, pid>> \in DOMAIN items

\* items.objects.create(prod=prod, quan=1, cart=ct)
CreateItem(u, pid) ==
    [k \in DOMAIN items \cup {<<u, pid>>} |->
        IF k = <<u, pid>> THEN 1 ELSE items[k]]

\* the rows of items without those of the keys ks
DeleteItems(ks) == [k \in DOMAIN items \ ks |-> items[k]]

\* the request is handled and the response returned
Serve(view, u, pid, method) ==
    /\ handled < MaxRequests
    /\ handled' = handled + 1
    /\ request' = [view |-> view, user |-> u, product_id |-> pid,
                   method |-> method]

\* GET add/<product_id>/.  login_required sends a client without a login
\* to the login page; product.objects.get raises for an id of no row,
\* before the cartlist is looked up.
add_cart(u, pid) ==
    /\ Serve("add_cart", u, pid, "GET")
    /\ IF u = Anonymous \/ pid \notin Products
       THEN UNCHANGED <<stock, cartlist, items>>
       ELSE /\ cartlist' = cartlist \cup {u}
            /\ IF HasItem(u, pid)
               THEN IF items[<<u, pid>>] < stock[pid]
                    THEN /\ items' = [items EXCEPT ![<<u, pid>>] = @ + 1]
                         /\ stock' = [stock EXCEPT ![pid] = @ - 1]
                    ELSE UNCHANGED <<stock, items>>
               ELSE /\ items' = CreateItem(u, pid)
                    /\ stock' = [stock EXCEPT ![pid] = @ - 1]
    /\ UNCHANGED payment
    /\ UNCHANGED <<partsVars, prodVars>>

\* GET minus/<product_id>/.  ct_list.exists is the bound method, always
\* true; the loop runs over the cartlist rows of the user (none or one),
\* and get_object_or_404 answers 404 for an id of no row.
min_cart(u, pid) ==
    /\ Serve("min_cart", u, pid, "GET")
    /\ IF u = Anonymous \/ u \notin cartlist \/ pid \notin Products
            \/ ~HasItem(u, pid)
       THEN UNCHANGED items
       ELSE IF items[<<u, pid>>] > 1
            THEN items' = [items EXCEPT ![<<u, pid>>] = @ - 1]
            ELSE items' = DeleteItems({<<u, pid>>})
    /\ UNCHANGED <<stock, cartlist, payment>>
    /\ UNCHANGED <<partsVars, prodVars>>

\* GET delete/<product_id>/
delete_from_cart(u, pid) ==
    /\ Serve("delete_from_cart", u, pid, "GET")
    /\ IF u = Anonymous \/ u \notin cartlist \/ pid \notin Products
            \/ ~HasItem(u, pid)
       THEN UNCHANGED <<stock, items>>
       ELSE /\ stock' = [stock EXCEPT ![pid] = @ + items[<<u, pid>>]]
            /\ items' = DeleteItems({<<u, pid>>})
    /\ UNCHANGED <<cartlist, payment>>
    /\ UNCHANGED <<partsVars, prodVars>>

\* A call of the view payments.  A GET renders the form.  A POST saves a
\* payment row of the user, then empties the cart of the user; the view
\* has no login_required: payment(user=AnonymousUser) raises before
\* anything is saved, and cartlist.objects.get raises after the payment
\* row is saved when the user has no cartlist.  (cart/urls.py routes
\* 'payment' to views.payment, the model class that views.py imports from
\* .models, so no path of cart/urls.py leads to this view.)
payments(u, method) ==
    /\ Serve("payments", u, 0, method)
    /\ IF method = "POST" /\ u # Anonymous
       THEN /\ payment' = [payment EXCEPT ![u] = @ + 1]
            /\ IF u \in cartlist
               THEN items' = DeleteItems({k \in DOMAIN items : k[1] = u})
               ELSE UNCHANGED items
       ELSE UNCHANGED <<payment, items>>
    /\ UNCHANGED <<stock, cartlist>>
    /\ UNCHANGED <<partsVars, prodVars>>

\* a shop with its products in stock, before the first request: no
\* cartlist, no items, no payment
InitCart ==
    /\ stock \in [Products -> 0..MaxStock]
    /\ cartlist = {}
    /\ items = <<>>
    /\ payment = [u \in Users |-> 0]
    /\ request = NoRequest
    /\ handled = 0
    /\ xs = [kind |-> "sized", items |-> <<>>, ending |-> "stop"]
    /\ number = <<>>
    /\ length = NoLength
    /\ g = Frame0
    /\ cursor = 0
    /\ out = <<>>
    /\ taken = <<>>
    /\ err = "none"
    /\ NoProducts

AddCart == \E u \in Clients, pid \in ProductIds : add_cart(u, pid)

MinCart == \E u \in Clients, pid \in ProductIds : min_cart(u, pid)

DeleteFromCart ==
    \E u \in Clients, pid \in ProductIds : delete_from_cart(u, pid)

Payments == \E u \in Clients, method \in {"GET", "POST"} : payments(u, method)

NextCart == AddCart \/ MinCart \/ DeleteFromCart \/ Payments

SpecCart == InitCart /\ [][NextCart]_vars

RECURSIVE Quantity(_, _, _)
\* the quantities of product p in the items rows it of the users us
Quantity(it, us, p) ==
    IF us = {} THEN 0
    ELSE LET u == CHOOSE v \in us : TRUE
         IN  (IF <<u, p>> \in DOMAIN it THEN it[<<u, p>>] ELSE 0)
                + Quantity(it, us \ {u}, p)

\* the units of product p in stock and in carts
Held(st, it, p) == st[p] + Quantity(it, Users, p)

\* a cart view other than payments has just been handled
CartCall ==
    /\ handled' = handled + 1
    /\ request'.view \in {"add_cart", "min_cart", "delete_from_cart"}

\* C21: for every product, the sum of its stock and of its quantities in
\* cart items is left unchanged by every call of add_cart, min_cart and
\* delete_from_cart, by any user and after any calls
C21_StockConservation ==
    [][CartCall => \A p \in Products :
                      Held(stock', items', p) = Held(stock, items, p)]_vars

\* the second request of a run: min_cart on the one item of user 1, of
\* product 1 and of quantity 1, which add_cart has created; the item is
\* deleted and the unit is not back in stock
C21_Witness ==
    /\ handled = 2
    /\ request = [view |-> "min_cart", user |-> 1, product_id |-> 1,
                  method |-> "GET"]
    /\ cartlist = {1}
    /\ items = <<>>
    /\ stock = [p \in Products |-> IF p = 1 THEN MaxStock - 1 ELSE MaxStock]

\* C22: from stocks >= 0, after any add_cart, min_cart, delete_from_cart
\* and payments by any users every stock is >= 0 and every cart item has a
\* quantity >= 1
C22_StockNeverNegative ==
    /\ \A p \in Products : stock[p] >= 0
    /\ \A k \in DOMAIN items : items[k] >= 1

\* add_cart of a product out of stock by a user whose cart does not hold
\* it: the item is created and the stock is -1
C22_Witness ==
    /\ handled = 1
    /\ request.view = "add_cart"
    /\ HasItem(request.user, request.product_id)
    /\ items[<<request.user, request.product_id>>] = 1
    /\ stock[request.product_id] = -1

====
